---- MODULE Spec2Model ----
(***************************************************************************)
(* Model of the lifecycle-event core of the container daemon:              *)
(*   - rateLimit.Check        (journald/ratelimit.go)                      *)
(*   - journald.Log           (daemon/logger/journald/journald.go)         *)
(*   - Daemon.StateChanged    (daemon/monitor.go)                          *)
(*   - Daemon.AttachStreams   (daemon/monitor.go)                          *)
(*                                                                         *)
(* Two specifications share the module:                                    *)
(*   SpecRL  the journald driver with its per-container rate limiter       *)
(*   Spec    the daemon: notification handlers, attach calls, copy tasks   *)
(***************************************************************************)
EXTENDS Integers, Sequences, FiniteSets, TLC

(***************************************************************************)
(* Bounds of the model                                                     *)
(***************************************************************************)
\* largest Burst label value tried (the smallest is -1)
MaxBurst == 3
\* largest Interval label value tried, in clock ticks
MaxInterval == 2
\* the wall clock runs from 1 to MaxTime
MaxTime == 5
\* number of Check / Log calls made on one driver
MaxCalls == 6

Nil == "nil"

(***************************************************************************)
(* State of the journald driver (SpecRL)                                   *)
(***************************************************************************)
VARIABLES
  clock,       \* time.Now(), monotonic
  rateLimit,   \* journald.rateLimit: NoLimiter, or the rateLimit struct
  sent,        \* the journal.Send calls made by the last Log call, in order
  ret,         \* what the last Log call returned: "nil" or "err"
  last,        \* the last call made on the driver
  chk,         \* what the last Check call returned
  hist         \* history of the Check calls, kept for the properties

rlvars == <<clock, rateLimit, sent, ret, last, chk, hist>>

\* the zero time.Time; time.Now() never returns it
ZeroTime == 0

\* journal priorities (go-systemd journal.Priority)
PriErr == 3
PriWarning == 4
PriInfo == 6

Sources == {"event", "stdout", "stderr"}
Lines == {"line", "{stop}"}

\* a label of the container: absent, present but unparseable, or present
\* with the value strconv.Atoi / time.ParseDuration gives for it
Label(exists, parses, value) == [exists |-> exists, parses |-> parses, value |-> value]
Absent == Label(FALSE, FALSE, 0)
Bad == Label(TRUE, FALSE, 0)
BurstLabels == {Absent, Bad} \cup {Label(TRUE, TRUE, v) : v \in -1 .. MaxBurst}
IntervalLabels == {Absent, Bad} \cup {Label(TRUE, TRUE, v) : v \in 0 .. MaxInterval}

\* the nil *rateLimit
NoLimiter == [nil |-> TRUE]

\* newRateLimit: a limiter iff both labels exist and both parse
newRateLimit(burstLabel, intervalLabel) ==
  IF ~burstLabel.exists /\ ~intervalLabel.exists THEN NoLimiter
  ELSE IF ~burstLabel.exists \/ ~intervalLabel.exists THEN NoLimiter
  ELSE IF ~burstLabel.parses THEN NoLimiter
  ELSE IF ~intervalLabel.parses THEN NoLimiter
  ELSE [Burst |-> burstLabel.value, Interval |-> intervalLabel.value,
        begin |-> ZeroTime, num |-> 0, suppressed |-> 0]

\* Check with the burst test off by one (admits Burst + 1 per interval)
CheckBurstOffByOne(r, now) ==
  IF r.begin = ZeroTime
    THEN [r |-> [r EXCEPT !.suppressed = 0, !.num = 1, !.begin = now],
          allowed |-> TRUE, suppressed |-> 0]
  ELSE IF r.begin + r.Interval < now
    THEN [r |-> [r EXCEPT !.suppressed = 0, !.num = 1, !.begin = now],
          allowed |-> TRUE, suppressed |-> r.suppressed]
  ELSE IF r.num <= r.Burst
    THEN [r |-> [r EXCEPT !.num = r.num + 1], allowed |-> TRUE, suppressed |-> 0]
  ELSE [r |-> [r EXCEPT !.suppressed = r.suppressed + 1],
        allowed |-> FALSE, suppressed |-> 0]

\* Check that forgets to clear suppressed when it opens a new interval
CheckKeepsSuppressed(r, now) ==
  IF r.begin = ZeroTime
    THEN [r |-> [r EXCEPT !.suppressed = 0, !.num = 1, !.begin = now],
          allowed |-> TRUE, suppressed |-> 0]
  ELSE IF r.begin + r.Interval < now
    THEN [r |-> [r EXCEPT !.num = 1, !.begin = now],
          allowed |-> TRUE, suppressed |-> r.suppressed]
  ELSE IF r.num < r.Burst
    THEN [r |-> [r EXCEPT !.num = r.num + 1], allowed |-> TRUE, suppressed |-> 0]
  ELSE [r |-> [r EXCEPT !.suppressed = r.suppressed + 1],
        allowed |-> FALSE, suppressed |-> 0]

\* Check that rejects without counting the rejection
CheckForgetsRejection(r, now) ==
  IF r.begin = ZeroTime
    THEN [r |-> [r EXCEPT !.suppressed = 0, !.num = 1, !.begin = now],
          allowed |-> TRUE, suppressed |-> 0]
  ELSE IF r.begin + r.Interval < now
    THEN [r |-> [r EXCEPT !.suppressed = 0, !.num = 1, !.begin = now],
          allowed |-> TRUE, suppressed |-> r.suppressed]
  ELSE IF r.num < r.Burst
    THEN [r |-> [r EXCEPT !.num = r.num + 1], allowed |-> TRUE, suppressed |-> 0]
  ELSE [r |-> r, allowed |-> FALSE, suppressed |-> 0]

\* Check that counts a rejected call as admitted too
CheckCountsRejectedInNum(r, now) ==
  IF r.begin = ZeroTime
    THEN [r |-> [r EXCEPT !.suppressed = 0, !.num = 1, !.begin = now],
          allowed |-> TRUE, suppressed |-> 0]
  ELSE IF r.begin + r.Interval < now
    THEN [r |-> [r EXCEPT !.suppressed = 0, !.num = 1, !.begin = now],
          allowed |-> TRUE, suppressed |-> r.suppressed]
  ELSE IF r.num < r.Burst
    THEN [r |-> [r EXCEPT !.num = r.num + 1], allowed |-> TRUE, suppressed |-> 0]
  ELSE [r |-> [r EXCEPT !.suppressed = r.suppressed + 1, !.num = r.num + 1],
        allowed |-> FALSE, suppressed |-> 0]

\* Check that also closes the interval at exactly begin + Interval
CheckClosesAtEdge(r, now) ==
  IF r.begin = ZeroTime
    THEN [r |-> [r EXCEPT !.suppressed = 0, !.num = 1, !.begin = now],
          allowed |-> TRUE, suppressed |-> 0]
  ELSE IF r.begin + r.Interval <= now
    THEN [r |-> [r EXCEPT !.suppressed = 0, !.num = 1, !.begin = now],
          allowed |-> TRUE, suppressed |-> r.suppressed]
  ELSE IF r.num < r.Burst
    THEN [r |-> [r EXCEPT !.num = r.num + 1], allowed |-> TRUE, suppressed |-> 0]
  ELSE [r |-> [r EXCEPT !.suppressed = r.suppressed + 1],
        allowed |-> FALSE, suppressed |-> 0]

\* rateLimit.Check: the limiter after the call, and the two values returned
Check(r, now) ==
  IF r.begin = ZeroTime
    THEN [r |-> [r EXCEPT !.suppressed = 0, !.num = 1, !.begin = now],
          allowed |-> TRUE, suppressed |-> 0]
  ELSE IF r.begin + r.Interval < now
    THEN [r |-> [r EXCEPT !.suppressed = 0, !.num = 1, !.begin = now],
          allowed |-> TRUE, suppressed |-> r.suppressed]
  ELSE IF r.num < r.Burst
    THEN [r |-> [r EXCEPT !.num = r.num + 1], allowed |-> TRUE, suppressed |-> 0]
  ELSE [r |-> [r EXCEPT !.suppressed = r.suppressed + 1],
        allowed |-> FALSE, suppressed |-> 0]

\* rateLimit.Suppressed
Suppressed(r) == r.suppressed

(***************************************************************************)
(* History of the Check calls.  An interval is opened by the first call    *)
(* ever and by every call made later than ivStart + Interval; every other  *)
(* call is made within the interval that is open.  The history is computed *)
(* from the clock and from the values Check returns, never from the        *)
(* limiter's own counters.                                                 *)
(***************************************************************************)
NoHist ==
  [calls |-> 0,          \* calls made on the driver (Check and Log)
   ivStart |-> ZeroTime, \* time of the call that opened the current interval
   ivCalls |-> 0,        \* Check calls in the current interval, the opening one included
   ivRejected |-> 0,     \* Check calls rejected in the current interval
   closedRejected |-> 0, \* Check calls rejected in the interval closed last
   prevAllowed |-> FALSE,\* whether the Check call before the last one was admitted
   prevReported |-> 0,   \* count reported by the Check call before the last one
   admReported |-> 0,    \* count reported by the last admitted Check call
   admBefore |-> 0,      \* count reported by the admitted Check call before that one
   rejected |-> 0,       \* Check calls rejected so far
   reported |-> 0]       \* sum of the counts the Check calls reported so far

Opens(h, r, now) == h.ivStart = ZeroTime \/ now > h.ivStart + r.Interval

Record(h, r, now, res, lst) ==
  LET opens == Opens(h, r, now)
      rej == IF res.allowed THEN 0 ELSE 1
  IN [calls |-> h.calls + 1,
      ivStart |-> IF opens THEN now ELSE h.ivStart,
      ivCalls |-> IF opens THEN 1 ELSE h.ivCalls + 1,
      ivRejected |-> IF opens THEN rej ELSE h.ivRejected + rej,
      closedRejected |-> IF opens THEN h.ivRejected ELSE h.closedRejected,
      prevAllowed |-> lst.allowed,
      prevReported |-> lst.suppressed,
      admReported |-> IF res.allowed THEN res.suppressed ELSE h.admReported,
      admBefore |-> IF res.allowed THEN h.admReported ELSE h.admBefore,
      rejected |-> h.rejected + rej,
      reported |-> h.reported + res.suppressed]

\* where a call made at time now lies with respect to the end of the
\* limiter's interval: the first call ever, before begin + Interval, exactly
\* at it, or past it
When(r, now) ==
  IF r.begin = ZeroTime THEN "first"
  ELSE IF now < r.begin + r.Interval THEN "before"
  ELSE IF now = r.begin + r.Interval THEN "edge"
  ELSE "past"

\* what the last Check call returned (kept across Log calls of events)
NoCheck ==
  [made |-> FALSE, allowed |-> FALSE, suppressed |-> 0, opens |-> FALSE, when |-> "none"]

\* the record of a Check call made at time now on limiter r
Checked(r, now, res) ==
  [made |-> TRUE, allowed |-> res.allowed, suppressed |-> res.suppressed,
   opens |-> Opens(hist, r, now), when |-> When(r, now)]

NoCall ==
  [op |-> "none", source |-> Nil, line |-> Nil, checked |-> FALSE,
   dropFailed |-> FALSE]  \* the Send of the 'dropped' event returned an error

\* the driver as New returns it
InitDriver ==
  /\ clock = 1
  /\ \E b \in BurstLabels, i \in IntervalLabels : rateLimit = newRateLimit(b, i)
  /\ sent = <<>>
  /\ ret = "nil"
  /\ last = NoCall
  /\ chk = NoCheck
  /\ hist = NoHist

\* the wall clock advances
Tick ==
  /\ clock < MaxTime
  /\ clock' = clock + 1
  /\ UNCHANGED <<rateLimit, sent, ret, last, chk, hist>>

\* a direct call of rateLimit.Check
CheckCall ==
  /\ rateLimit # NoLimiter
  /\ hist.calls < MaxCalls
  /\ LET res == Check(rateLimit, clock)
     IN /\ rateLimit' = res.r
        /\ last' = [NoCall EXCEPT !.op = "Check", !.checked = TRUE]
        /\ chk' = Checked(rateLimit, clock, res)
        /\ hist' = Record(hist, rateLimit, clock, res, chk)
  /\ UNCHANGED <<clock, sent, ret>>

\* one journal.Send call
Send(body, pri, vars) == [body |-> body, pri |-> pri, vars |-> vars]

\* the error Log returns is the error of its last journal.Send
SendResult(ok) == IF ok THEN "nil" ELSE "err"

\* journald.sendSuppressedMessage
sendSuppressedMessage(suppressed) ==
  Send([type |-> "dropped", lines |-> suppressed], PriWarning, "eVars")

\* the Send that ends Log for a message from the container
Forward(source, line) ==
  IF source = "stderr" THEN Send(line, PriErr, "vars")
  ELSE Send(line, PriInfo, "vars")

\* journald.Log of an event: sent at once, whatever the limiter holds
LogEvent(line, ok) ==
  /\ sent' = <<Send(line, PriWarning, "eVars")>>
  /\ ret' = SendResult(ok)
  /\ last' = [NoCall EXCEPT !.op = "Log", !.source = "event", !.line = line]
  /\ hist' = [hist EXCEPT !.calls = hist.calls + 1]
  /\ UNCHANGED <<clock, rateLimit, chk>>

\* journald.Log of a stdout/stderr message with no limiter configured
LogUnlimited(source, line, ok) ==
  /\ rateLimit = NoLimiter
  /\ sent' = <<Forward(source, line)>>
  /\ ret' = SendResult(ok)
  /\ last' = [NoCall EXCEPT !.op = "Log", !.source = source, !.line = line]
  /\ hist' = [hist EXCEPT !.calls = hist.calls + 1]
  /\ UNCHANGED <<clock, rateLimit, chk>>

\* Log giving up when the 'dropped' event cannot be sent
LogLimitedStopsOnDropFailure(source, line, ok, okDropped) ==
  /\ rateLimit # NoLimiter
  /\ LET res == Check(rateLimit, clock)
     IN /\ rateLimit' = res.r
        /\ sent' = IF ~res.allowed THEN <<>>
                   ELSE IF res.suppressed > 0
                     THEN IF okDropped
                            THEN <<sendSuppressedMessage(res.suppressed),
                                   Forward(source, line)>>
                            ELSE <<sendSuppressedMessage(res.suppressed)>>
                   ELSE <<Forward(source, line)>>
        /\ ret' = IF ~res.allowed THEN "nil"
                  ELSE IF res.suppressed > 0 /\ ~okDropped THEN "err"
                  ELSE SendResult(ok)
        /\ last' = [op |-> "Log", source |-> source, line |-> line, checked |-> TRUE,
                    dropFailed |-> res.allowed /\ res.suppressed > 0 /\ ~okDropped]
        /\ chk' = Checked(rateLimit, clock, res)
        /\ hist' = Record(hist, rateLimit, clock, res, chk)
  /\ UNCHANGED clock

\* journald.Log of a stdout/stderr message with a limiter configured; ok and
\* okDropped are what journal.Send gives for the message and for the
\* 'dropped' event
LogLimited(source, line, ok, okDropped) ==
  /\ rateLimit # NoLimiter
  /\ LET res == Check(rateLimit, clock)
     IN /\ rateLimit' = res.r
        /\ sent' = IF ~res.allowed THEN <<>>
                   ELSE IF res.suppressed > 0
                     THEN <<sendSuppressedMessage(res.suppressed),
                            Forward(source, line)>>
                   ELSE <<Forward(source, line)>>
        /\ ret' = IF ~res.allowed THEN "nil" ELSE SendResult(ok)
        /\ last' = [op |-> "Log", source |-> source, line |-> line, checked |-> TRUE,
                    dropFailed |-> res.allowed /\ res.suppressed > 0 /\ ~okDropped]
        /\ chk' = Checked(rateLimit, clock, res)
        /\ hist' = Record(hist, rateLimit, clock, res, chk)
  /\ UNCHANGED clock

\* Log that passes events through the rate limiter like any other message
LogLimitsEvents(source, line, ok, okDropped) ==
  /\ hist.calls < MaxCalls
  /\ \/ rateLimit = NoLimiter /\ source = "event" /\ LogEvent(line, ok)
     \/ LogUnlimited(source, line, ok)
     \/ LogLimited(source, line, ok, okDropped)

\* journald.Log
Log(source, line, ok, okDropped) ==
  /\ hist.calls < MaxCalls
  /\ IF source = "event" THEN LogEvent(line, ok)
     ELSE \/ LogUnlimited(source, line, ok)
          \/ LogLimited(source, line, ok, okDropped)

LogCall ==
  \E source \in Sources, line \in Lines, ok \in BOOLEAN, okDropped \in BOOLEAN :
    Log(source, line, ok, okDropped)

NextDriver == Tick \/ CheckCall \/ LogCall

(***************************************************************************)
(* The forwarding tasks (SpecFwd).  The output of a container reaches Log  *)
(* from one task per stream, stdout and stderr, which run concurrently;    *)
(* neither Log nor Check takes a lock, so a Check call is not one step: it *)
(* reads the limiter's fields and later writes them.                       *)
(***************************************************************************)
\* Log calls the forwarding tasks make in one run
MaxForward == 4

VARIABLES
  fwd          \* per forwarding task its place in Log and what its Check read;
               \* counts of the calls made, rejected, reported

fvars == <<fwd>>

\* the tasks that forward the container's output to the driver
Forwarders == {"stdout", "stderr"}

NoForward ==
  [task |-> [s \in Forwarders |-> [pc |-> "idle", seen |-> NoLimiter, now |-> ZeroTime]],
   calls |-> 0, rejected |-> 0, reported |-> 0,
   interleaved |-> FALSE]  \* a Check call wrote the fields between the read and
                           \* the write of another Check call

\* Log is called by task s: with no limiter the message is sent at once;
\* with a limiter the task enters Check, which reads time.Now() and the fields
FwdCall(s) ==
  /\ fwd.task[s].pc = "idle"
  /\ fwd.calls < MaxForward
  /\ fwd' = IF rateLimit = NoLimiter
              THEN [fwd EXCEPT !.calls = fwd.calls + 1]
              ELSE [fwd EXCEPT !.calls = fwd.calls + 1,
                               !.task[s] = [pc |-> "check", seen |-> rateLimit,
                                            now |-> clock]]
  /\ UNCHANGED <<clock, rateLimit, sent, ret, last, chk, hist>>

\* the Check call of task s writes the fields and returns.  When another
\* call wrote them since this one read them, the two calls race: the values
\* written follow from what was read then or from what is there now.
FwdReturn(s) ==
  /\ fwd.task[s].pc = "check"
  /\ \E base \in {fwd.task[s].seen, rateLimit} :
       LET res == Check(base, fwd.task[s].now)
       IN /\ rateLimit' = res.r
          /\ fwd' = [fwd EXCEPT
                       !.task[s] = NoForward.task[s],
                       !.rejected = fwd.rejected + (IF res.allowed THEN 0 ELSE 1),
                       !.reported = fwd.reported + res.suppressed,
                       !.interleaved = fwd.interleaved \/ fwd.task[s].seen # rateLimit]
  /\ UNCHANGED <<clock, sent, ret, last, chk, hist>>

(***************************************************************************)
(* Properties of the rate limiter and of the journald driver               *)
(***************************************************************************)
Limited == rateLimit # NoLimiter

\* C1: with Burst >= 1, a Check call made within the open interval is admitted
\* iff it is among the first Burst calls of the interval and reports 0; the
\* call that opens the next interval (the first one made after the interval
\* has elapsed) is admitted and reports the number of calls rejected in the
\* interval it closes.
C1_BurstThenReject ==
  (Limited /\ last.checked /\ rateLimit.Burst >= 1) =>
    IF chk.opens
      THEN chk.allowed /\ chk.suppressed = hist.closedRejected
      ELSE /\ chk.allowed = (hist.ivCalls <= rateLimit.Burst)
           /\ chk.suppressed = 0

\* Burst = 3: three admitted and two rejected calls, then the sixth call
\* opens the next interval and reports 2
C1_Witness ==
  /\ Limited /\ last.checked /\ rateLimit.Burst = 3
  /\ hist.calls = 6 /\ chk.opens /\ chk.allowed /\ chk.suppressed = 2
  /\ hist.closedRejected = 2

\* C2 as stated: of two consecutive admitted Check calls, at most one
\* reports a non-zero suppressed count (looked at for Burst >= 1 and
\* Interval >= 1 only, where it already fails).
C2_NoTwoConsecutiveReports ==
  (Limited /\ last.checked /\ chk.allowed /\ rateLimit.Burst >= 1 /\ rateLimit.Interval >= 1) =>
    ~(chk.suppressed > 0 /\ hist.admBefore > 0)

\* C2 amended: with Burst >= 2 no two consecutive admitted Check calls both
\* report a non-zero count; with any Burst no two calls made one right after
\* the other both report a non-zero count, a non-zero count is reported only
\* by the call that opens an interval and is the number of calls rejected in
\* the interval it closes, and a call within an interval reports 0.
C2_ReportedOncePerInterval ==
  (Limited /\ last.checked) =>
    /\ rateLimit.Burst >= 2 => ~(chk.allowed /\ chk.suppressed > 0 /\ hist.admBefore > 0)
    /\ ~(chk.suppressed > 0 /\ hist.prevReported > 0)
    /\ chk.suppressed > 0 => chk.opens /\ chk.allowed
    /\ chk.opens => chk.suppressed = hist.closedRejected
    /\ ~chk.opens => chk.suppressed = 0

\* an interval with rejected calls is closed by a call that reports them, and
\* the next admitted call reports nothing
C2_Witness ==
  /\ Limited /\ last.checked /\ rateLimit.Burst >= 2
  /\ chk.allowed /\ chk.suppressed = 0 /\ hist.admBefore > 0
  /\ hist.prevAllowed /\ hist.prevReported > 0

\* C3: Log of an event makes exactly one journal.Send, of the message's line
\* at the event priority with the event-flagged metadata, whatever the rate
\* limiter holds and also when there is none.
C3_EventAlwaysForwarded ==
  (last.op = "Log" /\ last.source = "event") =>
    sent = <<Send(last.line, PriWarning, "eVars")>>

\* an event logged right after two stdout/stderr messages were rejected
C3_Witness ==
  /\ last.op = "Log" /\ last.source = "event" /\ Limited
  /\ chk.made /\ ~chk.allowed /\ rateLimit.suppressed >= 2
  /\ sent = <<Send("{stop}", PriWarning, "eVars")>>

\* C15 as stated (looked at for Burst >= 1 and Interval >= 1, where it
\* already fails): a Check call made at or past begin + Interval, exactly
\* at it included, is admitted and starts a new interval with num = 1 and
\* suppressed = 0.
C15_ClosesAtOrPastEnd ==
  (Limited /\ last.checked /\ rateLimit.Burst >= 1 /\ rateLimit.Interval >= 1
     /\ chk.when \in {"edge", "past"})
    => chk.allowed /\ rateLimit.num = 1 /\ rateLimit.suppressed = 0

\* C15 amended: a Check call made past begin + Interval closes the old
\* interval: it is admitted, reports the old interval's rejected calls, and
\* starts a new interval with begin = now, num = 1 and suppressed = 0.  A
\* call made exactly at begin + Interval is still within the old interval:
\* begin is unchanged, the call reports 0, and it is admitted iff fewer than
\* Burst calls of the interval were admitted before it.
C15_ClosesOnlyPastEnd ==
  (Limited /\ last.checked) =>
    /\ chk.when = "past" =>
         /\ chk.opens /\ chk.allowed /\ chk.suppressed = hist.closedRejected
         /\ rateLimit.begin = hist.ivStart
         /\ rateLimit.num = 1 /\ rateLimit.suppressed = 0
    /\ chk.when = "edge" =>
         /\ ~chk.opens /\ chk.suppressed = 0
         /\ rateLimit.begin = hist.ivStart /\ hist.ivCalls >= 2
         /\ chk.allowed = (hist.ivCalls <= rateLimit.Burst)
         /\ rateLimit.suppressed = hist.ivRejected

\* Burst = 1, Interval >= 1: the call made exactly at begin + Interval was
\* rejected and counted as suppressed
C15_Witness ==
  /\ Limited /\ last.checked /\ chk.when = "edge"
  /\ rateLimit.Burst = 1 /\ rateLimit.Interval >= 1
  /\ ~chk.allowed /\ rateLimit.suppressed = 1 /\ rateLimit.num = 1

\* C16: Log of a stdout/stderr message on a driver with a rate limiter.
\* Rejected by Check: no Send is made and Log returns nil.  Admitted with a
\* count n > 0: exactly two Sends, first the 'dropped' event with lines = n
\* at the event priority with the event metadata, then the message (stderr
\* at the error priority, stdout at the info priority, plain metadata), also
\* when the first Send failed.  Admitted with count 0: the message alone.
C16_DroppedEventThenMessage ==
  (Limited /\ last.op = "Log" /\ last.source # "event") =>
    LET message == [body |-> last.line,
                    pri |-> IF last.source = "stderr" THEN PriErr ELSE PriInfo,
                    vars |-> "vars"]
        dropped == [body |-> [type |-> "dropped", lines |-> chk.suppressed],
                    pri |-> PriWarning, vars |-> "eVars"]
    IN /\ last.checked
       /\ ~chk.allowed => sent = <<>> /\ ret = "nil"
       /\ (chk.allowed /\ chk.suppressed > 0) => sent = <<dropped, message>>
       /\ (chk.allowed /\ chk.suppressed = 0) => sent = <<message>>
       /\ last.dropFailed => chk.allowed /\ chk.suppressed > 0

\* a stderr line admitted with a count of 2: the 'dropped' event could not be
\* sent, the line was sent after it, and Log returned nil
C16_Witness ==
  /\ Limited /\ last.op = "Log" /\ last.source = "stderr" /\ last.dropFailed
  /\ chk.allowed /\ chk.suppressed = 2 /\ ret = "nil"
  /\ Len(sent) = 2 /\ sent[1].body = [type |-> "dropped", lines |-> 2]
  /\ sent[2] = [body |-> last.line, pri |-> PriErr, vars |-> "vars"]

\* C19: the counts reported so far plus the limiter's suppressed field make
\* the number of Check calls rejected so far, and the suppressed field is
\* the number of calls rejected in the current interval.
C19_EveryRejectionCountedOnce ==
  (Limited /\ chk.made) =>
    /\ hist.reported + Suppressed(rateLimit) = hist.rejected
    /\ Suppressed(rateLimit) = hist.ivRejected

\* two intervals with rejected calls: the first one's count is reported,
\* the second one's is still in the suppressed field
C19_Witness ==
  /\ Limited /\ chk.made
  /\ hist.reported >= 1 /\ rateLimit.suppressed >= 1
  /\ hist.rejected = hist.reported + rateLimit.suppressed

\* the larger of two integers
Max(a, b) == IF a >= b THEN a ELSE b

\* C20: after the first Check call 1 <= num <= max(1, Burst); the calls
\* admitted in the current interval are num of them; and the call that
\* opens an interval is admitted whatever Burst is.
C20_NumWithinBurst ==
  (Limited /\ chk.made) =>
    /\ 1 <= rateLimit.num /\ rateLimit.num <= Max(1, rateLimit.Burst)
    /\ hist.ivCalls - hist.ivRejected = rateLimit.num
    /\ (last.checked /\ chk.opens) => chk.allowed

\* Burst = -1: the call that opened the second interval was admitted, and
\* the calls after it in the interval were rejected
C20_Witness ==
  /\ Limited /\ chk.made /\ rateLimit.Burst = -1
  /\ rateLimit.num = 1 /\ hist.reported >= 1 /\ hist.ivRejected >= 1

\* C18: at most one forwarding task is inside Check on the limiter at any
\* time, and no Check call finds the fields written by another call between
\* its own read and its own write.
C18_CheckByOneTaskAtATime ==
  /\ Cardinality({s \in Forwarders : fwd.task[s].pc = "check"}) <= 1
  /\ ~fwd.interleaved

\* What the interleaving costs: with one call at a time the counts reported
\* plus the suppressed field make the number of rejected calls (C19); with
\* two tasks they need not.
ForwardedRejectionsCounted ==
  (Limited /\ \A s \in Forwarders : fwd.task[s].pc = "idle")
    => fwd.reported + Suppressed(rateLimit) = fwd.rejected

(***************************************************************************)
(* The daemon (Spec): one container "c" of the registry, one exec "e" of   *)
(* it, the tasks that handle notifications (StateChanged), the tasks that  *)
(* run AttachStreams, and the copy tasks AttachStreams starts.             *)
(***************************************************************************)
\* notifications handled in one run, each by a task of its own
MaxNotifs == 2
\* AttachStreams calls made in one run
MaxAttach == 1
\* lines the container writes in one run
MaxLines == 1

\* the tasks that handle notifications
H == 1 .. MaxNotifs
\* the owners of a StreamConfig
Targets == {"c", "e"}
Kinds == {"OOM", "Exit", "Restart", "ExitProcess", "Start", "Restore", "Pause", "Resume"}
\* the nil logger.Logger; the drivers StartLogging creates are 1, 2, ...
NoDriver == 0
\* the lock is free
Free == 0
Drivers == 1 .. MaxAttach

\* The workloads.  One run of the daemon takes its notifications and its
\* attach calls from one of them; together they make every kind of
\* notification and name every id.
Workloads ==
  {[name |-> "container", kinds |-> {"Exit", "Restart"}, ids |-> {"c"},
    attach |-> {"c"}, exec |-> FALSE],
   [name |-> "exec", kinds |-> {"Start", "ExitProcess"}, ids |-> {"c"},
    attach |-> {"e", "x"}, exec |-> TRUE],
   [name |-> "start", kinds |-> {"Start", "Restore"}, ids |-> {"c"},
    attach |-> {"c"}, exec |-> FALSE],
   [name |-> "states", kinds |-> Kinds, ids |-> {"c", "x"},
    attach |-> {}, exec |-> FALSE]}

VARIABLES
  c,         \* the container: State, Paused, RestartCount, HasBeenManuallyStopped,
             \* LogDriver, ExecCommands, Config.Tty, stdin (buffered source)
  ec,        \* the exec config: its place in the daemon's store, Running, ExitCode, ...
  wg,        \* the completion counter (sync.WaitGroup) of each StreamConfig
  lock,      \* holder of the container's lock
  hl,        \* per handler task: position in StateChanged and its locals
  res,       \* the StateChanged call that returned last: kind, events, result
  at,        \* the AttachStreams call in progress, its position and its locals
  tasks,     \* the copy tasks that have not called Done yet
  io,        \* copiers attached to the container's streams, lines pending per driver
  journal,   \* what reached the log drivers, in order
  cnt,       \* counts: notifications, attach calls, lines, copy tasks, drivers
  work,      \* the workload of the run: the notifications and calls it makes
  panicked   \* a handler dereferenced a nil LogDriver

dvars == <<c, ec, wg, lock, hl, res, at, tasks, io, journal, cnt, work, panicked>>

Idle ==
  [pc |-> "idle", kind |-> "none", id |-> Nil, code |-> 0,
   logDriver |-> NoDriver,   \* the local logDriver of the Exit case
   readLocked |-> FALSE,     \* logDriver was read with the lock held by this task
   readBeforeReset |-> FALSE,\* logDriver was read before this call's Reset
   replaced |-> FALSE,       \* another task wrote c.LogDriver after the read
   resetDone |-> FALSE,      \* this call's Reset has returned
   stopSent |-> FALSE,       \* this call has handed the stop message to Log
   preReset |-> NoDriver,    \* c.LogDriver when this call's Reset began
   postReset |-> NoDriver,   \* c.LogDriver when this call's Reset returned
   seen |-> -1,              \* copy tasks started when this call's Wait returned
   wrote |-> "none",         \* container fields written: "locked" / "unlocked"
   events |-> <<>>]          \* events this call emitted

\* a call that has returned: "nil", "err" or "notfound"
Returned(l, result) ==
  [kind |-> l.kind, id |-> l.id, events |-> l.events, ret |-> result, wrote |-> l.wrote,
   disk |-> "none"]

\* a call that has returned after c.ToDisk(): what ToDisk gave, "nil" or "err"
Persisted(l, result, diskOk) ==
  [Returned(l, result) EXCEPT !.disk = IF diskOk THEN "nil" ELSE "err"]

NoResult ==
  [kind |-> "none", id |-> Nil, events |-> <<>>, ret |-> "none", wrote |-> "none",
   disk |-> "none"]

NoAttach ==
  [pc |-> "idle", id |-> Nil, tgt |-> Nil, isContainer |-> FALSE,
   tty |-> FALSE,       \* the target uses a pseudo-terminal
   buffered |-> FALSE,  \* s.Stdin() is not nil
   given |-> FALSE,     \* iop.Stdin is not nil
   stdin |-> "none",    \* iop.Stdin: "none", "open", "closed", "copying"
   stdout |-> FALSE, stderr |-> FALSE,
   started |-> 0,       \* copy tasks this call started
   ret |-> "none"]      \* "nil", "err", "notfound"

InitDaemon ==
  /\ work \in Workloads
  /\ \E tty \in BOOLEAN, stdin \in BOOLEAN :
       /\ "c" \notin work.attach => ~tty /\ ~stdin
       /\ c = [State |-> "created", Paused |-> FALSE, RestartCount |-> 0,
            HasBeenManuallyStopped |-> FALSE, LogDriver |-> NoDriver,
            ExecCommands |-> {}, Tty |-> tty, stdin |-> stdin]
  /\ ec = [stored |-> FALSE, Running |-> FALSE, ExitCode |-> -1, closed |-> FALSE,
           Tty |-> FALSE, stdin |-> FALSE]
  /\ wg = [t \in Targets |-> 0]
  /\ lock = Free
  /\ hl = [h \in H |-> Idle]
  /\ res = NoResult
  /\ at = NoAttach
  /\ tasks = {}
  /\ io = [copiers |-> {}, pending |-> [d \in Drivers |-> 0]]
  /\ journal = <<>>
  /\ cnt = [notifs |-> 0, attach |-> 0, lines |-> 0, started |-> 0, drivers |-> 0]
  /\ panicked = FALSE

\* daemon.containers.Get
ContainerGet(id) == id = "c"
\* daemon.getExecConfig
ExecGet(id) == id = "e" /\ ec.stored
\* c.ExecCommands.Get
ExecCommandsGet(id) == id \in c.ExecCommands

\* the StreamConfig a notification of this kind waits on
WaitTarget(kind) == IF kind = "ExitProcess" THEN "e" ELSE "c"

ActiveTasks(tgt) == {t \in tasks : t.tgt = tgt}

(***************************************************************************)
(* Collaborators outside monitor.go                                        *)
(***************************************************************************)
\* Container.Reset blocks until the output streamed so far has reached the
\* drivers
ResetReady == \A d \in io.copiers : io.pending[d] = 0

\* Container.Reset: detaches the copiers and sets LogDriver to nil
ResetIO == [io EXCEPT !.copiers = {}]

\* the exec command is registered with the daemon and with the container
ExecStart ==
  /\ ~panicked
  /\ work.exec
  /\ ~ec.stored
  /\ c.State = "running"
  /\ \E tty \in BOOLEAN, stdin \in BOOLEAN :
       ec' = [stored |-> TRUE, Running |-> TRUE, ExitCode |-> -1, closed |-> FALSE,
              Tty |-> tty, stdin |-> stdin]
  /\ c' = [c EXCEPT !.ExecCommands = c.ExecCommands \cup {"e"}]
  /\ UNCHANGED <<wg, lock, hl, res, at, tasks, io, journal, cnt, work, panicked>>

\* the logger's copier hands a pending line to its driver's Log
CopierLog(d) ==
  /\ ~panicked
  /\ d \in io.copiers
  /\ io.pending[d] > 0
  /\ io' = [io EXCEPT !.pending[d] = io.pending[d] - 1]
  /\ journal' = Append(journal, [d |-> d, type |-> "out"])
  /\ UNCHANGED <<c, ec, wg, lock, hl, res, at, tasks, cnt, work, panicked>>

(***************************************************************************)
(* Daemon.AttachStreams                                                    *)
(***************************************************************************)
\* a handler that has read c.LogDriver and not yet reset it sees the field
\* written by another task
Noted(l, before, after) ==
  IF l.readBeforeReset /\ ~l.resetDone /\ before # after
    THEN [l EXCEPT !.replaced = TRUE] ELSE l

\* the stdin branch with the tty test dropped: the handle of a container
\* without buffered stdin is always closed
AttachStdinIgnoresTty(isContainer, hasStdin, buffered, tty) ==
  IF ~hasStdin THEN "none"
  ELSE IF buffered THEN "copying"
  ELSE IF isContainer THEN "closed"
  ELSE "open"

\* what becomes of the stdin pipe handle (lines 136-150)
AttachStdin(isContainer, hasStdin, buffered, tty) ==
  IF ~hasStdin THEN "none"
  ELSE IF buffered THEN "copying"
  ELSE IF isContainer /\ ~tty THEN "closed"
  ELSE "open"

\* lookup, StartLogging and the stdin pipe (lines 119-150)
AttachBegin(id, hasStdin, hasStdout, hasStderr, logOk) ==
  /\ ~panicked
  /\ at.pc = "idle"
  /\ cnt.attach < MaxAttach
  /\ cnt' = [cnt EXCEPT !.attach = cnt.attach + 1,
                        !.drivers = IF ContainerGet(id) /\ logOk
                                    THEN cnt.drivers + 1 ELSE cnt.drivers]
  /\ IF ~ContainerGet(id) /\ ~ExecGet(id)
       THEN /\ at' = [NoAttach EXCEPT !.id = id, !.ret = "notfound"]
            /\ UNCHANGED <<c, io>>
     ELSE IF ContainerGet(id) /\ ~logOk
       THEN /\ ResetReady
            /\ io' = ResetIO
            /\ c' = [c EXCEPT !.LogDriver = NoDriver]
            /\ at' = [NoAttach EXCEPT !.id = id, !.ret = "err", !.isContainer = TRUE,
                        !.tty = c.Tty, !.buffered = c.stdin, !.given = hasStdin,
                        !.stdin = IF hasStdin THEN "open" ELSE "none"]
     ELSE /\ IF ContainerGet(id)
               THEN /\ c' = [c EXCEPT !.LogDriver = cnt.drivers + 1]
                    /\ io' = [io EXCEPT !.copiers = io.copiers \cup {cnt.drivers + 1}]
               ELSE UNCHANGED <<c, io>>
          /\ at' = [pc |-> "stdout", id |-> id, tgt |-> id,
                    isContainer |-> ContainerGet(id),
                    tty |-> IF ContainerGet(id) THEN c.Tty ELSE ec.Tty,
                    buffered |-> IF ContainerGet(id) THEN c.stdin ELSE ec.stdin,
                    given |-> hasStdin,
                    stdin |-> AttachStdin(ContainerGet(id), hasStdin,
                                          IF ContainerGet(id) THEN c.stdin ELSE ec.stdin,
                                          IF ContainerGet(id) THEN c.Tty ELSE ec.Tty),
                    stdout |-> hasStdout, stderr |-> hasStderr,
                    started |-> 0, ret |-> "none"]
  /\ hl' = [h \in H |-> Noted(hl[h], c.LogDriver, c'.LogDriver)]
  /\ UNCHANGED <<ec, wg, lock, res, tasks, journal, work, panicked>>

\* the copy closure (lines 152-160): s.Add(1), then the task is started
StartCopy(tgt, stream) ==
  /\ wg' = [wg EXCEPT ![tgt] = wg[tgt] + 1]
  /\ tasks' = tasks \cup {[seq |-> cnt.started + 1, tgt |-> tgt,
                            stream |-> stream, st |-> "copying"]}
  /\ cnt' = [cnt EXCEPT !.started = cnt.started + 1]

\* lines 162-164
AttachStdout ==
  /\ ~panicked
  /\ at.pc = "stdout"
  /\ IF at.stdout
       THEN /\ StartCopy(at.tgt, "stdout")
            /\ at' = [at EXCEPT !.pc = "stderr", !.started = at.started + 1]
       ELSE /\ at' = [at EXCEPT !.pc = "stderr"]
            /\ UNCHANGED <<wg, tasks, cnt>>
  /\ UNCHANGED <<c, ec, lock, hl, res, io, journal, work, panicked>>

\* lines 165-169
AttachStderr ==
  /\ ~panicked
  /\ at.pc = "stderr"
  /\ IF at.stderr
       THEN /\ StartCopy(at.tgt, "stderr")
            /\ at' = [at EXCEPT !.pc = "idle", !.ret = "nil", !.tgt = Nil,
                                 !.started = at.started + 1]
       ELSE /\ at' = [at EXCEPT !.pc = "idle", !.ret = "nil", !.tgt = Nil]
            /\ UNCHANGED <<wg, tasks, cnt>>
  /\ UNCHANGED <<c, ec, lock, hl, res, io, journal, work, panicked>>

\* the stdin task (lines 138-141): the copy ends and the pipe is closed
StdinCopyEnd ==
  /\ ~panicked
  /\ at.stdin = "copying"
  /\ at' = [at EXCEPT !.stdin = "closed"]
  /\ UNCHANGED <<c, ec, wg, lock, hl, res, tasks, io, journal, cnt, work, panicked>>

\* a copy task moves one line from the pipe into the stream's sink
CopyData(t) ==
  /\ ~panicked
  /\ t \in tasks /\ t.st = "copying" /\ t.tgt = "c"
  /\ cnt.lines < MaxLines
  /\ cnt' = [cnt EXCEPT !.lines = cnt.lines + 1]
  /\ io' = [io EXCEPT !.pending = [d \in Drivers |->
                IF d \in io.copiers THEN io.pending[d] + 1 ELSE io.pending[d]]]
  /\ UNCHANGED <<c, ec, wg, lock, hl, res, at, tasks, journal, work, panicked>>

\* the pipe a copy task reads reaches EOF, or the copy fails
CopyEnd(t, how) ==
  /\ ~panicked
  /\ t \in tasks /\ t.st = "copying"
  /\ tasks' = (tasks \ {t}) \cup {[t EXCEPT !.st = how]}
  /\ UNCHANGED <<c, ec, wg, lock, hl, res, at, io, journal, cnt, work, panicked>>

\* a copy task that returns without s.Done() when io.Copy failed
CopyDoneSkipsDoneOnError(t) ==
  /\ ~panicked
  /\ t \in tasks /\ t.st \in {"eof", "err"}
  /\ tasks' = tasks \ {t}
  /\ wg' = [wg EXCEPT ![t.tgt] = IF t.st = "err" THEN wg[t.tgt] ELSE wg[t.tgt] - 1]
  /\ UNCHANGED <<c, ec, lock, hl, res, at, io, journal, cnt, work, panicked>>

\* a copy task that takes the container's lock around s.Done()
CopyDoneNeedsLock(t) ==
  /\ ~panicked
  /\ t \in tasks /\ t.st \in {"eof", "err"}
  /\ lock = Free
  /\ tasks' = tasks \ {t}
  /\ wg' = [wg EXCEPT ![t.tgt] = wg[t.tgt] - 1]
  /\ UNCHANGED <<c, ec, lock, hl, res, at, io, journal, cnt, work, panicked>>

\* io.Copy has returned: the error is logged and s.Done() is called (155-158)
CopyDone(t) ==
  /\ ~panicked
  /\ t \in tasks /\ t.st \in {"eof", "err"}
  /\ tasks' = tasks \ {t}
  /\ wg' = [wg EXCEPT ![t.tgt] = wg[t.tgt] - 1]
  /\ UNCHANGED <<c, ec, lock, hl, res, at, io, journal, cnt, work, panicked>>

(***************************************************************************)
(* Daemon.StateChanged                                                     *)
(***************************************************************************)
ExitCodes == {0, 1}

\* whether the handler holds the container's lock when it writes a field
Wrote(h) == IF lock = h THEN "locked" ELSE "unlocked"

\* the Exit case sending the stop message before it resets
ExitOrderStopBeforeReset == <<"wait", "capture", "stop", "reset", "finish">>

\* the Exit case reading c.LogDriver after it resets
ExitOrderResetBeforeCapture == <<"wait", "reset", "capture", "stop", "finish">>

\* the order of the Exit case (lines 33-69)
ExitOrder == <<"wait", "capture", "reset", "stop", "finish">>

\* the step of the Exit case that follows step p
ExitNext(p) ==
  LET i == CHOOSE k \in 1 .. Len(ExitOrder) : ExitOrder[k] = p
  IN IF i = Len(ExitOrder) THEN "idle" ELSE ExitOrder[i + 1]

\* a Wait that returns at once
WaitReturnsAtOnce(tgt) == TRUE

\* c.Wait() / execConfig.Wait(): returns when the completion counter is zero
Wait(tgt) == wg[tgt] = 0

\* the handler's locals after one more step of the Exit case; the step that
\* ends the case returns
ExitStep(l, p, result) ==
  IF ExitNext(p) = "idle" THEN Idle ELSE [l EXCEPT !.pc = ExitNext(p)]

\* the result of the call, when step p of the Exit case ends it
ExitResult(l, p, result) ==
  IF ExitNext(p) = "idle" THEN Returned(l, result) ELSE res

\* c.ToDisk(): the error it returns, if any
ToDisk(diskOk) == IF diskOk THEN "nil" ELSE "err"

\* the lock, released by the deferred c.Unlock() when step p ends the case
ExitLock(h, p) == IF ExitNext(p) = "idle" THEN Free ELSE lock

\* the task that takes the next notification: the idle task of lowest number
Dequeues(h) == hl[h].pc = "idle" /\ \A g \in H : g < h => hl[g].pc # "idle"

\* lines 18-23: the lookup, and the case selected
Begin(h, kind, id, pid, code) ==
  /\ ~panicked
  /\ Dequeues(h)
  /\ cnt.notifs < MaxNotifs
  /\ cnt' = [cnt EXCEPT !.notifs = cnt.notifs + 1]
  /\ IF ~ContainerGet(id)
       THEN /\ res' = Returned([Idle EXCEPT !.kind = kind, !.id = id], "notfound")
            /\ UNCHANGED hl
       ELSE /\ hl' = [hl EXCEPT ![h] =
                 [Idle EXCEPT !.kind = kind, !.id = pid, !.code = code,
                   !.pc = IF kind \in {"Exit", "Restart", "ExitProcess"}
                            THEN "lock" ELSE "body"]]
            /\ UNCHANGED res
  /\ UNCHANGED <<c, ec, wg, lock, at, tasks, io, journal, work, panicked>>

\* c.Lock() (lines 31, 71, 82)
Lock(h) ==
  /\ ~panicked
  /\ hl[h].pc = "lock"
  /\ lock = Free
  /\ lock' = h
  /\ hl' = [hl EXCEPT ![h].pc =
              IF hl[h].kind = "Exit" THEN ExitOrder[1]
              ELSE IF hl[h].kind = "Restart" THEN "restart"
              ELSE "exitprocess"]
  /\ UNCHANGED <<c, ec, wg, res, at, tasks, io, journal, cnt, work, panicked>>

\* line 33: c.Wait()
ExitWait(h) ==
  /\ ~panicked
  /\ hl[h].pc = "wait"
  /\ Wait("c")
  /\ hl' = [hl EXCEPT ![h] = ExitStep([hl[h] EXCEPT !.seen = cnt.started], "wait", "nil")]
  /\ res' = ExitResult(hl[h], "wait", "nil")
  /\ lock' = ExitLock(h, "wait")
  /\ UNCHANGED <<c, ec, wg, at, tasks, io, journal, cnt, work, panicked>>

\* line 48: logDriver := c.LogDriver
ExitCapture(h) ==
  /\ ~panicked
  /\ hl[h].pc = "capture"
  /\ hl' = [hl EXCEPT ![h] =
              ExitStep([hl[h] EXCEPT !.logDriver = c.LogDriver,
                                     !.readLocked = (lock = h),
                                     !.readBeforeReset = ~hl[h].resetDone,
                                     !.replaced = FALSE],
                       "capture", "nil")]
  /\ res' = ExitResult(hl[h], "capture", "nil")
  /\ lock' = ExitLock(h, "capture")
  /\ UNCHANGED <<c, ec, wg, at, tasks, io, journal, cnt, work, panicked>>

\* line 50: c.Reset(false)
ExitReset(h) ==
  /\ ~panicked
  /\ hl[h].pc = "reset"
  /\ ResetReady
  /\ io' = ResetIO
  /\ c' = [c EXCEPT !.LogDriver = NoDriver]
  /\ hl' = [hl EXCEPT ![h] =
              ExitStep([hl[h] EXCEPT !.preReset = c.LogDriver,
                                     !.postReset = c'.LogDriver,
                                     !.resetDone = TRUE,
                                     !.wrote = Wrote(h)],
                       "reset", "nil")]
  /\ res' = ExitResult([hl[h] EXCEPT !.wrote = Wrote(h)], "reset", "nil")
  /\ lock' = ExitLock(h, "reset")
  /\ UNCHANGED <<ec, wg, at, tasks, journal, cnt, work, panicked>>

\* the Exit case returning the error of logDriver.Log instead of logging it
ExitStopPropagates(h, ok) ==
  /\ ~panicked
  /\ hl[h].pc = "stop"
  /\ IF hl[h].logDriver = NoDriver
       THEN /\ panicked' = TRUE
            /\ lock' = Free
            /\ hl' = [hl EXCEPT ![h].pc = "panicked"]
            /\ UNCHANGED <<journal, res>>
       ELSE IF ~ok
         THEN /\ hl' = [hl EXCEPT ![h] = Idle]
              /\ res' = Returned([hl[h] EXCEPT !.stopSent = TRUE], "err")
              /\ lock' = Free
              /\ UNCHANGED <<journal, panicked>>
       ELSE /\ journal' = Append(journal, [d |-> hl[h].logDriver, type |-> "stop"])
            /\ hl' = [hl EXCEPT ![h] =
                        ExitStep([hl[h] EXCEPT !.stopSent = TRUE], "stop", "nil")]
            /\ res' = ExitResult(hl[h], "stop", "nil")
            /\ lock' = ExitLock(h, "stop")
            /\ UNCHANGED panicked
  /\ UNCHANGED <<c, ec, wg, at, tasks, io, cnt, work>>

\* lines 53-58: logDriver.Log(stop message), whose error is only logged; a
\* nil logDriver panics, and the deferred c.Unlock() runs while the panic
\* unwinds
ExitStop(h, ok) ==
  /\ ~panicked
  /\ hl[h].pc = "stop"
  /\ IF hl[h].logDriver = NoDriver
       THEN /\ panicked' = TRUE
            /\ lock' = Free
            /\ hl' = [hl EXCEPT ![h].pc = "panicked"]
            /\ UNCHANGED <<journal, res>>
       ELSE /\ journal' = IF ok THEN Append(journal, [d |-> hl[h].logDriver, type |-> "stop"])
                          ELSE journal
            /\ hl' = [hl EXCEPT ![h] =
                        ExitStep([hl[h] EXCEPT !.stopSent = TRUE], "stop", "nil")]
            /\ res' = ExitResult(hl[h], "stop", "nil")
            /\ lock' = ExitLock(h, "stop")
            /\ UNCHANGED panicked
  /\ UNCHANGED <<c, ec, wg, at, tasks, io, cnt, work>>

\* lines 60-69: SetStopped, the die event, Cleanup, ToDisk, deferred Unlock
ExitFinish(h, diskOk) ==
  /\ ~panicked
  /\ hl[h].pc = "finish"
  /\ c' = [c EXCEPT !.State = "stopped", !.Paused = FALSE]
  /\ LET l == [hl[h] EXCEPT !.wrote = Wrote(h), !.events = Append(hl[h].events, "die")]
         result == ToDisk(diskOk)
     IN /\ hl' = [hl EXCEPT ![h] = ExitStep(l, "finish", result)]
        /\ res' = IF ExitNext("finish") = "idle" THEN Persisted(l, result, diskOk)
                  ELSE [res EXCEPT !.disk = ToDisk(diskOk)]
  /\ lock' = ExitLock(h, "finish")
  /\ UNCHANGED <<ec, wg, at, tasks, io, journal, cnt, work, panicked>>

\* lines 73-80: Reset, RestartCount++, SetRestarting, the die event, ToDisk
Restart(h, diskOk) ==
  /\ ~panicked
  /\ hl[h].pc = "restart"
  /\ ResetReady
  /\ io' = ResetIO
  /\ c' = [c EXCEPT !.LogDriver = NoDriver, !.RestartCount = c.RestartCount + 1,
                    !.State = "restarting", !.Paused = FALSE]
  /\ hl' = [hl EXCEPT ![h] = Idle]
  /\ res' = Persisted([hl[h] EXCEPT !.wrote = Wrote(h),
                                    !.events = Append(hl[h].events, "die")],
                      ToDisk(diskOk), diskOk)
  /\ lock' = Free
  /\ UNCHANGED <<ec, wg, at, tasks, journal, cnt, work, panicked>>

\* the ExitProcess case returning an error when the exec is not found
ExitProcessFailsWhenAbsent(h) ==
  /\ ~panicked
  /\ hl[h].pc = "exitprocess"
  /\ IF ExecCommandsGet(hl[h].id)
       THEN /\ ec' = [ec EXCEPT !.ExitCode = hl[h].code, !.Running = FALSE]
            /\ hl' = [hl EXCEPT ![h].pc = "execwait", ![h].wrote = Wrote(h)]
            /\ UNCHANGED <<lock, res>>
       ELSE /\ hl' = [hl EXCEPT ![h] = Idle]
            /\ res' = Returned(hl[h], "notfound")
            /\ lock' = Free
            /\ UNCHANGED ec
  /\ UNCHANGED <<c, wg, at, tasks, io, journal, cnt, work, panicked>>

\* lines 84-87 and 96-98: the exec is looked up; found, its exit code is set
ExitProcess(h) ==
  /\ ~panicked
  /\ hl[h].pc = "exitprocess"
  /\ IF ExecCommandsGet(hl[h].id)
       THEN /\ ec' = [ec EXCEPT !.ExitCode = hl[h].code, !.Running = FALSE]
            /\ hl' = [hl EXCEPT ![h].pc = "execwait", ![h].wrote = Wrote(h)]
            /\ UNCHANGED <<lock, res>>
       ELSE /\ hl' = [hl EXCEPT ![h] = Idle]
            /\ res' = Returned(hl[h], "nil")
            /\ lock' = Free
            /\ UNCHANGED ec
  /\ UNCHANGED <<c, wg, at, tasks, io, journal, cnt, work, panicked>>

\* line 88: execConfig.Wait()
ExecWait(h) ==
  /\ ~panicked
  /\ hl[h].pc = "execwait"
  /\ Wait("e")
  /\ hl' = [hl EXCEPT ![h].pc = "execclose", ![h].seen = cnt.started]
  /\ UNCHANGED <<c, ec, wg, lock, res, at, tasks, io, journal, cnt, work, panicked>>

\* the ExitProcess case returning the error of CloseStreams, the exec entry
\* left in the collection
ExecCloseFailsOnError(h, closeOk) ==
  /\ ~panicked
  /\ hl[h].pc = "execclose"
  /\ ec' = [ec EXCEPT !.closed = TRUE]
  /\ c' = IF closeOk THEN [c EXCEPT !.ExecCommands = c.ExecCommands \ {"e"}] ELSE c
  /\ hl' = [hl EXCEPT ![h] = Idle]
  /\ res' = Returned([hl[h] EXCEPT !.wrote = Wrote(h)], IF closeOk THEN "nil" ELSE "err")
  /\ lock' = Free
  /\ UNCHANGED <<wg, at, tasks, io, journal, cnt, work, panicked>>

\* lines 89-95: CloseStreams, ExecCommands.Delete, deferred Unlock
ExecClose(h, closeOk) ==
  /\ ~panicked
  /\ hl[h].pc = "execclose"
  /\ ec' = [ec EXCEPT !.closed = TRUE]
  /\ c' = [c EXCEPT !.ExecCommands = c.ExecCommands \ {"e"}]
  /\ hl' = [hl EXCEPT ![h] = Idle]
  /\ res' = Returned([hl[h] EXCEPT !.wrote = Wrote(h)], "nil")
  /\ lock' = Free
  /\ UNCHANGED <<wg, at, tasks, io, journal, cnt, work, panicked>>

\* the Start case returning the error of ToDisk without the Reset
StartSkipsReset(h, diskOk) ==
  /\ ~panicked
  /\ hl[h].pc = "body"
  /\ hl[h].kind \in {"Start", "Restore"}
  /\ c' = [c EXCEPT !.State = "running", !.Paused = FALSE,
                    !.HasBeenManuallyStopped = FALSE]
  /\ res' = IF diskOk
              THEN Persisted([hl[h] EXCEPT !.wrote = Wrote(h),
                                !.events = Append(hl[h].events, "start")],
                             ToDisk(diskOk), diskOk)
              ELSE Persisted([hl[h] EXCEPT !.wrote = Wrote(h)], ToDisk(diskOk), diskOk)
  /\ hl' = [hl EXCEPT ![h] = Idle]
  /\ UNCHANGED <<ec, wg, lock, at, tasks, io, journal, cnt, work, panicked>>

\* lines 99-106: SetRunning, the flag, ToDisk; Reset on failure, else the event
Start(h, diskOk) ==
  /\ ~panicked
  /\ hl[h].pc = "body"
  /\ hl[h].kind \in {"Start", "Restore"}
  /\ IF diskOk
       THEN /\ c' = [c EXCEPT !.State = "running", !.Paused = FALSE,
                              !.HasBeenManuallyStopped = FALSE]
            /\ res' = Persisted([hl[h] EXCEPT !.wrote = Wrote(h),
                                   !.events = Append(hl[h].events, "start")],
                                ToDisk(diskOk), diskOk)
            /\ UNCHANGED io
       ELSE /\ ResetReady
            /\ io' = ResetIO
            /\ c' = [c EXCEPT !.State = "running", !.Paused = FALSE,
                              !.HasBeenManuallyStopped = FALSE,
                              !.LogDriver = NoDriver]
            /\ res' = Persisted([hl[h] EXCEPT !.wrote = Wrote(h)], ToDisk(diskOk), diskOk)
  /\ hl' = [g \in H |-> IF g = h THEN Idle ELSE Noted(hl[g], c.LogDriver, c'.LogDriver)]
  /\ UNCHANGED <<ec, wg, lock, at, tasks, journal, cnt, work, panicked>>

\* lines 107-112: Paused is set or cleared, and the event emitted
PauseResume(h) ==
  /\ ~panicked
  /\ hl[h].pc = "body"
  /\ hl[h].kind \in {"Pause", "Resume"}
  /\ c' = [c EXCEPT !.Paused = (hl[h].kind = "Pause")]
  /\ hl' = [hl EXCEPT ![h] = Idle]
  /\ res' = Returned([hl[h] EXCEPT !.wrote = Wrote(h),
                        !.events = Append(hl[h].events,
                                     IF hl[h].kind = "Pause" THEN "pause" ELSE "unpause")],
                     "nil")
  /\ UNCHANGED <<ec, wg, lock, at, tasks, io, journal, cnt, work, panicked>>

\* lines 24-29: the oom event, or the error on Windows
OOM(h, goos) ==
  /\ ~panicked
  /\ hl[h].pc = "body"
  /\ hl[h].kind = "OOM"
  /\ hl' = [hl EXCEPT ![h] = Idle]
  /\ res' = IF goos = "windows" THEN Returned(hl[h], "err")
            ELSE Returned([hl[h] EXCEPT !.events = Append(hl[h].events, "oom")], "nil")
  /\ UNCHANGED <<c, ec, wg, lock, at, tasks, io, journal, cnt, work, panicked>>

\* the user stops the container: the manual-stop flag is set
ContainerStop ==
  /\ ~panicked
  /\ c.State = "running"
  /\ ~c.HasBeenManuallyStopped
  /\ c' = [c EXCEPT !.HasBeenManuallyStopped = TRUE]
  /\ UNCHANGED <<ec, wg, lock, hl, res, at, tasks, io, journal, cnt, work, panicked>>

\* a notification arrives: its kind, the container id, and for ExitProcess
\* the process id and the exit code
Notify ==
  \E h \in H, kind \in work.kinds, id \in work.ids :
    \E pid \in IF kind = "ExitProcess" THEN {"e", "x"} ELSE {id},
       code \in IF kind = "ExitProcess" THEN ExitCodes ELSE {0} :
      Begin(h, kind, id, pid, code)

Attach ==
  \E id \in work.attach, i \in BOOLEAN, o \in BOOLEAN, e \in BOOLEAN, logOk \in BOOLEAN :
    AttachBegin(id, i, o, e, logOk)

(***************************************************************************)
(* The specifications.  Each one runs one part and leaves the other as it  *)
(* was constructed.                                                        *)
(***************************************************************************)
vars == <<rlvars, dvars, fvars>>

\* no forwarding task has called Log
ForwardAtRest == fwd = NoForward

\* a driver without rate limiter on which nothing is called
DriverAtRest ==
  /\ clock = 1 /\ rateLimit = NoLimiter /\ sent = <<>> /\ ret = "nil"
  /\ last = NoCall /\ chk = NoCheck /\ hist = NoHist

\* a daemon to which nothing is notified
DaemonAtRest ==
  /\ c = [State |-> "created", Paused |-> FALSE, RestartCount |-> 0,
          HasBeenManuallyStopped |-> FALSE, LogDriver |-> NoDriver,
          ExecCommands |-> {}, Tty |-> FALSE, stdin |-> FALSE]
  /\ ec = [stored |-> FALSE, Running |-> FALSE, ExitCode |-> -1, closed |-> FALSE,
           Tty |-> FALSE, stdin |-> FALSE]
  /\ wg = [t \in Targets |-> 0]
  /\ lock = Free
  /\ hl = [h \in H |-> Idle]
  /\ res = NoResult
  /\ at = NoAttach
  /\ tasks = {}
  /\ io = [copiers |-> {}, pending |-> [d \in Drivers |-> 0]]
  /\ journal = <<>>
  /\ cnt = [notifs |-> 0, attach |-> 0, lines |-> 0, started |-> 0, drivers |-> 0]
  /\ work = CHOOSE w \in Workloads : w.name = "states"
  /\ panicked = FALSE

InitRL == InitDriver /\ DaemonAtRest /\ ForwardAtRest

NextRL ==
  \/ Tick /\ UNCHANGED <<dvars, fvars>>
  \/ CheckCall /\ UNCHANGED <<dvars, fvars>>
  \/ LogCall /\ UNCHANGED <<dvars, fvars>>

SpecRL == InitRL /\ [][NextRL]_vars

Init == InitDaemon /\ DriverAtRest /\ ForwardAtRest

Next ==
  \/ Notify /\ UNCHANGED <<rlvars, fvars>>
  \/ Attach /\ UNCHANGED <<rlvars, fvars>>
  \/ ExecStart /\ UNCHANGED <<rlvars, fvars>>
  \/ ContainerStop /\ UNCHANGED <<rlvars, fvars>>
  \/ (\E h \in H : Lock(h)) /\ UNCHANGED <<rlvars, fvars>>
  \/ (\E h \in H : ExitWait(h)) /\ UNCHANGED <<rlvars, fvars>>
  \/ (\E h \in H : ExitCapture(h)) /\ UNCHANGED <<rlvars, fvars>>
  \/ (\E h \in H : ExitReset(h)) /\ UNCHANGED <<rlvars, fvars>>
  \/ (\E h \in H, ok \in BOOLEAN : ExitStop(h, ok)) /\ UNCHANGED <<rlvars, fvars>>
  \/ (\E h \in H, ok \in BOOLEAN : ExitFinish(h, ok)) /\ UNCHANGED <<rlvars, fvars>>
  \/ (\E h \in H, ok \in BOOLEAN : Restart(h, ok)) /\ UNCHANGED <<rlvars, fvars>>
  \/ (\E h \in H : ExitProcess(h)) /\ UNCHANGED <<rlvars, fvars>>
  \/ (\E h \in H : ExecWait(h)) /\ UNCHANGED <<rlvars, fvars>>
  \/ (\E h \in H, ok \in BOOLEAN : ExecClose(h, ok)) /\ UNCHANGED <<rlvars, fvars>>
  \/ (\E h \in H, ok \in BOOLEAN : Start(h, ok)) /\ UNCHANGED <<rlvars, fvars>>
  \/ (\E h \in H : PauseResume(h)) /\ UNCHANGED <<rlvars, fvars>>
  \/ (\E h \in H, goos \in {"linux", "windows"} : OOM(h, goos)) /\ UNCHANGED <<rlvars, fvars>>
  \/ AttachStdout /\ UNCHANGED <<rlvars, fvars>>
  \/ AttachStderr /\ UNCHANGED <<rlvars, fvars>>
  \/ StdinCopyEnd /\ UNCHANGED <<rlvars, fvars>>
  \/ (\E t \in tasks : CopyData(t)) /\ UNCHANGED <<rlvars, fvars>>
  \/ (\E t \in tasks, how \in {"eof", "err"} : CopyEnd(t, how)) /\ UNCHANGED <<rlvars, fvars>>
  \/ (\E t \in tasks : CopyDone(t)) /\ UNCHANGED <<rlvars, fvars>>
  \/ (\E d \in Drivers : CopierLog(d)) /\ UNCHANGED <<rlvars, fvars>>

Spec == Init /\ [][Next]_vars

InitFwd == InitDriver /\ DaemonAtRest /\ ForwardAtRest

NextFwd ==
  \/ Tick /\ UNCHANGED <<dvars, fvars>>
  \/ (\E s \in Forwarders : FwdCall(s)) /\ UNCHANGED dvars
  \/ (\E s \in Forwarders : FwdReturn(s)) /\ UNCHANGED dvars

SpecFwd == InitFwd /\ [][NextFwd]_vars

\* the fairness the Go scheduler gives: a task that can run does run
Fairness ==
  /\ WF_dvars(\E t \in tasks : CopyDone(t))
  /\ WF_dvars(\E h \in H : ExitWait(h))
  /\ WF_dvars(\E h \in H : ExecWait(h))

\* the daemon under that fairness, for a container without pseudo-terminal
\* (the pump never reads Config.Tty once the stdin handle is dealt with)
InitNoTty == Init /\ ~c.Tty

FairSpec == InitNoTty /\ [][Next]_vars /\ Fairness

\* the next step of the task that handles a notification under the lock
HandlerStep(h) ==
  \/ Lock(h)
  \/ ExitWait(h)
  \/ ExitCapture(h)
  \/ ExitReset(h)
  \/ \E ok \in BOOLEAN : ExitStop(h, ok)
  \/ \E ok \in BOOLEAN : ExitFinish(h, ok)
  \/ \E ok \in BOOLEAN : Restart(h, ok)
  \/ ExitProcess(h)
  \/ ExecWait(h)
  \/ \E ok \in BOOLEAN : ExecClose(h, ok)

\* every task that can run does run: the handlers, the last step of the copy
\* tasks, the logger's copiers.  What the outside world does (a pipe reaching
\* EOF, a new notification, a new attach call) is not forced.
Progress ==
  /\ \A h \in H : WF_dvars(HandlerStep(h))
  /\ WF_dvars(\E t \in tasks : CopyDone(t))
  /\ WF_dvars(\E d \in Drivers : CopierLog(d))

LiveSpec == InitNoTty /\ [][Next]_vars /\ Progress

(***************************************************************************)
(* Properties of the daemon                                                *)
(***************************************************************************)
\* the handler has returned from its Wait and not yet from StateChanged
PastWait(h) == hl[h].pc \in {"capture", "reset", "stop", "finish", "execclose"}

\* C4: an Exit notification for a container that has already exited, and
\* whose LogDriver the earlier Reset set to nil, is handled without a panic.
C4_ReExitDoesNotPanic ==
  \A h \in H : ~(hl[h].pc = "panicked" /\ c.State = "stopped" /\ c.LogDriver = NoDriver)

\* C5 as stated: while a handler is past its Wait, no copy task of the
\* StreamConfig it waited on is unfinished.
C5_NoCopyInFlightPastWait ==
  \A h \in H : PastWait(h) => ActiveTasks(WaitTarget(hl[h].kind)) = {}

\* C5 amended: while a handler is past its Wait, every copy task that was
\* started before the Wait returned has finished; the only unfinished copy
\* tasks are those an AttachStreams call started after the Wait returned.
C5_WaitDrainsStartedCopies ==
  \A h \in H : PastWait(h) =>
    /\ hl[h].seen >= 0
    /\ \A t \in ActiveTasks(WaitTarget(hl[h].kind)) : t.seq > hl[h].seen

\* a handler past a Wait that drained one copy task, and a copy task started
\* since
C5_Witness ==
  \E h \in H :
    /\ PastWait(h) /\ hl[h].seen >= 1
    /\ \E t \in ActiveTasks(WaitTarget(hl[h].kind)) : t.seq > hl[h].seen

\* C6: the stop message is handed to the log driver only after the Wait and
\* the Reset of the call have returned, and no output message reaches a
\* driver after the stop message of that driver.
C6_NoOutputAfterStop ==
  /\ \A h \in H : hl[h].stopSent => hl[h].seen >= 0 /\ hl[h].resetDone
  /\ \A i, j \in 1 .. Len(journal) :
       (i < j /\ journal[i].type = "stop") =>
         ~(journal[j].type = "out" /\ journal[j].d = journal[i].d)

\* a line of output reached the driver, and then its stop message
C6_Witness ==
  /\ Len(journal) >= 2
  /\ journal[1].type = "out" /\ journal[2].type = "stop"
  /\ journal[1].d = journal[2].d

\* C7: when the Exit case sends the stop message, the handle it uses was
\* read from c.LogDriver with the lock held and before the Reset (it is the
\* value the Reset cleared, unless another task wrote the field in between),
\* and the Reset left c.LogDriver nil.
C7_StopUsesPreResetDriver ==
  \A h \in H : (hl[h].kind = "Exit" /\ hl[h].pc \in {"stop", "finish"}) =>
    /\ hl[h].readLocked /\ hl[h].readBeforeReset
    /\ hl[h].resetDone /\ hl[h].postReset = NoDriver
    /\ ~hl[h].replaced => hl[h].logDriver = hl[h].preReset

\* about to send the stop message to the driver the Reset detached
C7_Witness ==
  \E h \in H :
    /\ hl[h].kind = "Exit" /\ hl[h].pc = "stop"
    /\ hl[h].logDriver # NoDriver /\ hl[h].logDriver = hl[h].preReset
    /\ c.LogDriver = NoDriver

\* every pipe of the StreamConfig has ended and no attach call is adding to it
Drained(tgt) ==
  /\ \A t \in ActiveTasks(tgt) : t.st # "copying"
  /\ at.pc = "idle" \/ at.tgt # tgt

\* an AttachStreams call is at work on the StreamConfig, or the process died
Disturbed(tgt) == (at.pc # "idle" /\ at.tgt = tgt) \/ panicked

\* C8: a call given stdout and stderr and no stdin starts exactly two copy
\* tasks; the completion counter is the number of copy tasks that have not
\* ended, whether they end by EOF or by an error; once the pipes have ended
\* the counter returns to zero and a handler waiting on it goes on.
C8_PumpDrains ==
  /\ [](\A tgt \in Targets : wg[tgt] = Cardinality(ActiveTasks(tgt)))
  /\ []((at.pc = "idle" /\ at.ret = "nil" /\ at.stdout /\ at.stderr /\ ~at.given)
          => at.started = 2)
  /\ \A tgt \in Targets : Drained(tgt) ~> (wg[tgt] = 0 \/ Disturbed(tgt))
  /\ \A h \in H : (hl[h].pc = "wait" /\ Drained("c"))
                    ~> (hl[h].pc # "wait" \/ Disturbed("c"))
  /\ \A h \in H : (hl[h].pc = "execwait" /\ Drained("e"))
                    ~> (hl[h].pc # "execwait" \/ Disturbed("e"))

\* both copy tasks of a call have ended, one by EOF and one by an error, with
\* a handler waiting
C8_Witness ==
  /\ at.pc = "idle" /\ at.ret = "nil" /\ at.started = 2 /\ ~at.given
  /\ \E t1, t2 \in tasks : t1.st = "eof" /\ t2.st = "err"
  /\ \E h \in H : hl[h].pc = "wait"

\* an AttachStreams call that was given a stdin pipe handle, on a target with
\* no buffered stdin source, has returned
StdinCase == at.pc = "idle" /\ at.ret \in {"nil", "err"} /\ at.given /\ ~at.buffered

\* C9 as stated (looked at for calls that return no error, where it already
\* fails): the handle is closed if the target, container or exec, uses no
\* pseudo-terminal, and left open if the target is a container with one.
C9_StdinClosedUnlessTty ==
  (StdinCase /\ at.ret = "nil") =>
    /\ ~at.tty => at.stdin = "closed"
    /\ (at.isContainer /\ at.tty) => at.stdin = "open"

\* C9 amended: the handle is closed iff the target is a container without
\* pseudo-terminal and the call returns no error; the handle of an exec, of
\* a container with a pseudo-terminal, and of a call that StartLogging failed
\* is left open.
C9_StdinClosedForNonTtyContainer ==
  StdinCase =>
    at.stdin = IF at.ret = "nil" /\ at.isContainer /\ ~at.tty THEN "closed" ELSE "open"

\* the handle of a container without pseudo-terminal was closed
C9_Witness ==
  StdinCase /\ at.ret = "nil" /\ at.isContainer /\ ~at.tty /\ at.stdin = "closed"

\* C10: whenever a handler writes a field of the container, it holds the
\* container's lock.
C10_WritesUnderLock ==
  /\ \A h \in H : hl[h].wrote # "unlocked"
  /\ res.wrote # "unlocked"

\* C11: in the Exit case a stop message the driver failed to deliver changes
\* nothing and lets the handler go on to its last step (first conjunct); that
\* step sets the container stopped, emits exactly the die event, releases the
\* lock, and returns what ToDisk returned (second conjunct).
C11_StopFailureSwallowed ==
  [][\A h \in H :
       /\ (hl[h].kind = "Exit" /\ hl[h].pc = "stop" /\ hl[h].logDriver # NoDriver
             /\ hl'[h].pc # "stop" /\ journal' = journal)
            => /\ hl'[h].pc = "finish" /\ res' = res /\ lock' = lock /\ c' = c
       /\ (hl[h].kind = "Exit" /\ hl[h].pc = "finish" /\ hl'[h].pc # "finish")
            => /\ c'.State = "stopped"
               /\ res'.kind = "Exit" /\ res'.events = <<"die">>
               /\ res'.disk \in {"nil", "err"} /\ res'.ret = res'.disk
               /\ lock' = Free /\ hl'[h] = Idle]_vars

\* an Exit call has returned nil and left the container stopped although no
\* stop message was ever delivered to a driver
C11_Witness ==
  /\ res.kind = "Exit" /\ res.ret = "nil" /\ res.events = <<"die">>
  /\ c.State = "stopped" /\ ~panicked
  /\ \A i \in 1 .. Len(journal) : journal[i].type # "stop"

\* C12: the step that ends a Start or Restore call leaves the container
\* running with the manual-stop flag cleared; if ToDisk succeeded the call
\* returns nil, has emitted exactly one start event and has left the I/O and
\* the LogDriver alone; if ToDisk failed the call returns the error, has
\* emitted no event, and the I/O is reset (copiers detached, LogDriver nil).
C12_StartPersistOrReset ==
  [][\A h \in H :
       (hl[h].pc = "body" /\ hl[h].kind \in {"Start", "Restore"} /\ hl'[h].pc = "idle")
         => /\ res'.kind = hl[h].kind
            /\ c'.State = "running" /\ ~c'.HasBeenManuallyStopped
            /\ res'.disk \in {"nil", "err"} /\ res'.ret = res'.disk
            /\ IF res'.disk = "nil"
                 THEN /\ res'.events = <<"start">>
                      /\ io' = io /\ c'.LogDriver = c.LogDriver
                 ELSE /\ res'.events = <<>>
                      /\ io'.copiers = {} /\ c'.LogDriver = NoDriver]_vars

\* a Start call whose ToDisk failed has returned the error, and the driver
\* an earlier AttachStreams call attached is gone
C12_Witness ==
  /\ res.kind = "Start" /\ res.ret = "err" /\ res.events = <<>>
  /\ cnt.drivers = 1 /\ at.ret = "nil"
  /\ c.LogDriver = NoDriver /\ io.copiers = {}
  /\ c.State = "running"

\* what a call that names an unknown id must leave alone
Untouched == UNCHANGED <<c, ec, wg, tasks, io, journal, panicked>>

\* C13 as stated: every call that named the unknown id "x", as container id
\* or as exec id, returned the not-found error.
C13_UnknownIdReturnsError ==
  /\ (res.kind # "none" /\ res.id = "x") => res.ret = "notfound"
  /\ (at.ret # "none" /\ at.id = "x") => at.ret = "notfound"

\* C13 amended: a notification that names an unknown container id returns
\* the not-found error in one step, before any case is entered; an
\* AttachStreams call that names neither a container nor a stored exec
\* returns the not-found error in one step; an ExitProcess notification whose
\* exec id is not in the container's exec collection returns nil, after it
\* took the lock, and releases the lock.  None of them changes the
\* container, the exec, a completion counter, the copy tasks or the I/O, and
\* none emits an event.
C13_UnknownIdChangesNothing ==
  [][/\ (cnt'.notifs # cnt.notifs /\ hl' = hl)
         => /\ res'.ret = "notfound" /\ res'.id = "x" /\ res'.events = <<>>
            /\ Untouched /\ UNCHANGED <<lock, at>>
     /\ (cnt'.attach # cnt.attach /\ at'.id # "c" /\ ~(at'.id = "e" /\ ec.stored))
         => /\ at'.ret = "notfound" /\ at'.pc = "idle" /\ at'.started = 0
            /\ Untouched /\ UNCHANGED <<lock, hl, res>>
     /\ \A h \in H :
          (hl[h].pc = "exitprocess" /\ hl'[h].pc # "exitprocess"
             /\ ~ExecCommandsGet(hl[h].id))
            => /\ lock = h /\ lock' = Free /\ hl'[h] = Idle
               /\ res'.kind = "ExitProcess" /\ res'.ret = "nil" /\ res'.events = <<>>
               /\ res'.wrote = "none"
               /\ Untouched /\ UNCHANGED at]_vars

\* an AttachStreams call that named the unknown id "x" returned the
\* not-found error, and an ExitProcess notification for the unknown exec "x"
\* returned nil
C13_Witness ==
  /\ at.id = "x" /\ at.ret = "notfound"
  /\ res.kind = "ExitProcess" /\ res.id = "x" /\ res.ret = "nil"
  /\ lock = Free /\ tasks = {} /\ wg = [t \in Targets |-> 0]

\* every source pipe has ended and no AttachStreams call is under way
PipesEnded == at.pc = "idle" /\ \A t \in tasks : t.st # "copying"

\* the task is handling an Exit, Restart or ExitProcess notification
Pending(h) ==
  hl[h].kind \in {"Exit", "Restart", "ExitProcess"} /\ hl[h].pc \notin {"idle", "panicked"}

\* C14: once every source pipe has ended, every pending Exit, Restart and
\* ExitProcess handler returns, and has then released the lock, unless a new
\* AttachStreams call opens new pipes in the meantime.
C14_HandlersFinish ==
  \A h \in H :
    (Pending(h) /\ PipesEnded) ~> ((hl[h].pc = "idle" /\ lock # h) \/ ~PipesEnded)

\* What holds of the lock and the completion counter, the nil dereference of
\* the Exit case (C4) set aside: a copy task whose copy has ended can always
\* make its last step, whoever holds the lock; the lock is held only by a
\* task inside one of the locked cases; and once every pipe has ended every
\* pending handler returns, unless new pipes are opened or the daemon died.
LockAndCounterNeverBlock ==
  /\ [](~panicked => \A t \in tasks : t.st \in {"eof", "err"} => ENABLED CopyDone(t))
  /\ [](\A h \in H : lock = h => Pending(h) /\ hl[h].pc # "lock")
  /\ \A h \in H :
       (Pending(h) /\ PipesEnded) ~> (hl[h].pc = "idle" \/ ~PipesEnded \/ panicked)

\* a handler holds the lock and waits on the completion counter while a
\* second handler waits for the lock and a copy task has yet to call Done
LockHeldWhileWaiting ==
  \E h, g \in H :
    /\ hl[h].pc = "wait" /\ lock = h /\ wg["c"] > 0
    /\ hl[g].pc = "lock"
    /\ PipesEnded /\ tasks # {}

\* C17: the steps of the ExitProcess case.  Exec id in the collection: the
\* exit code of the notification is recorded and the running flag cleared,
\* nothing else; the handler goes past its Wait only with the exec's own
\* counter at zero; then the streams are closed, the entry is removed from
\* the container's collection but stays in the daemon's store, and the call
\* returns nil whatever CloseStreams returned.  Exec id absent: container
\* and exec are unchanged and the call returns nil.
C17_ExitProcessRetiresExec ==
  [][\A h \in H :
       /\ (hl[h].pc = "exitprocess" /\ hl'[h].pc # "exitprocess")
            => IF hl[h].id \in c.ExecCommands
                 THEN /\ hl'[h].pc = "execwait"
                      /\ ec' = [ec EXCEPT !.ExitCode = hl[h].code, !.Running = FALSE]
                      /\ c' = c /\ lock' = lock
                 ELSE /\ hl'[h] = Idle /\ c' = c /\ ec' = ec
                      /\ res'.kind = "ExitProcess" /\ res'.ret = "nil"
                      /\ res'.events = <<>>
       /\ (hl[h].pc = "execwait" /\ hl'[h].pc # "execwait")
            => /\ hl'[h].pc = "execclose" /\ wg["e"] = 0
               /\ c' = c /\ ec' = ec /\ lock' = lock
       /\ (hl[h].pc = "execclose" /\ hl'[h].pc # "execclose")
            => /\ hl'[h] = Idle /\ lock' = Free
               /\ ec' = [ec EXCEPT !.closed = TRUE] /\ ec'.stored
               /\ ec'.ExitCode = hl[h].code /\ ~ec'.Running
               /\ c' = [c EXCEPT !.ExecCommands = c.ExecCommands \ {hl[h].id}]
               /\ res'.kind = "ExitProcess" /\ res'.ret = "nil"]_vars

\* an ExitProcess call for the exec has returned nil after its Wait drained
\* a copy task of the exec: the exit code 1 is recorded, the streams are
\* closed, the entry is gone from the container and still in the store
C17_Witness ==
  /\ res.kind = "ExitProcess" /\ res.id = "e" /\ res.ret = "nil"
  /\ ec.stored /\ ec.closed /\ ~ec.Running /\ ec.ExitCode = 1
  /\ "e" \notin c.ExecCommands
  /\ cnt.started >= 1 /\ wg["e"] = 0

====
